---- MODULE Spec2Model ----
(***************************************************************************)
(* The PowerBIDashboard component (frontend/src/pages/PowerBIDashboard/    *)
(* PowerBIDashboard.js): its React state, its three effects, its three     *)
(* asynchronous fetches and its user commands.                             *)
(*                                                                         *)
(* One action is one React commit: a user event or the resolution of one   *)
(* axios promise, with the state updates it makes and the effects those    *)
(* updates trigger (an effect runs when one of its dependencies changed).  *)
(* Requests in flight are kept in wsFetch, reportFetches and configFetches;*)
(* they resolve in any order.                                              *)
(***************************************************************************)
EXTENDS Naturals, Sequences, FiniteSets

VARIABLES
    embedConfig,        \* useState(null): {} is null, {c} is the installed response
    loading,            \* useState(true)
    error,              \* useState(null)
    workspaces,         \* useState([]): sequence of workspace ids
    reports,            \* useState([]): sequence of report ids
    selectedWorkspace,  \* useState('')
    selectedReport,     \* useState('')
    settingsOpen,       \* useState(false)
    embedSettings,      \* useState({theme, filterPaneEnabled, ...})
    wsFetch,            \* the GET /api/powerbi/workspaces of the mount effect
    reportFetches,      \* outstanding GET /api/powerbi/reports requests
    configFetches,      \* outstanding POST /api/powerbi/embed-config requests
    issued,             \* number of report and config requests issued so far
    now                 \* the clock that `new Date()` reads

vars == <<embedConfig, loading, error, workspaces, reports, selectedWorkspace,
          selectedReport, settingsOpen, embedSettings, wsFetch, reportFetches,
          configFetches, issued, now>>

\* ------------------------------------------------------------------ bounds
\* Number of report and embed-config requests up to which user commands
\* are explored.
MaxFetches == 6
\* The clock runs from 0 to MaxTime.
MaxTime == 3
\* Lifetime of the token of an embed configuration, set by the token service.
TokenLifetime == 2
\* How long before the expiration a configuration counts as nearing expiry.
LeadWindow == 1

\* ------------------------------------------------- the remote services
\* What GET /api/powerbi/workspaces may answer (response.data).
WorkspaceLists == { <<>>, <<"w1", "w2", "w3">>, <<"w3", "w2", "w1">> }

\* What GET /api/powerbi/reports?workspace_id=w answers: the reports that
\* belong to workspace w, in the order returned.
Catalog == [w \in {"w1", "w2", "w3"} |->
              CASE w = "w1" -> <<"r1", "r2">>
                [] w = "w2" -> <<"r3">>
                [] w = "w3" -> <<>>]

Themes == {"light", "dark"}

Null == "null"
WorkspacesError == "Failed to load Power BI workspaces"
ReportsError == "Failed to load Power BI reports"
EmbedConfigError == "Failed to generate Power BI embed configuration"
ResponseError == "response.data.error"

Range(s) == { s[i] : i \in 1..Len(s) }

\* ------------------------------------------------------------- effects
\* generateEmbedConfig(): setLoading(true) and POST {report_id, workspace_id}
\* with the selectedReport and selectedWorkspace of the calling render.  The
\* body has these two fields and no other; id is the order of issue.
EmbedRequest(id, sr, sw) ==
    [id |-> id, report_id |-> sr, workspace_id |-> sw]

\* The response body installed by setEmbedConfig(response.data): the service
\* answers for the pair it was asked for, with a token that expires
\* TokenLifetime after the answer; id is the request it answers.
EmbedResponse(f) ==
    [report_id |-> f.report_id, workspace_id |-> f.workspace_id, id |-> f.id,
     expiration |-> now + TokenLifetime]

\* useEffect [selectedWorkspace]: runs when selectedWorkspace changed.
ReportsEffectRuns(sw2) == sw2 # selectedWorkspace /\ sw2 # ""

\* Variant: the effect runs after every commit, whether or not a dependency
\* changed (a missing or wrong dependency array).
ConfigEffectRuns_EveryCommit(sw2, sr2) == sr2 # "" /\ sw2 # ""

\* useEffect [selectedReport, selectedWorkspace]: runs when either changed.
ConfigEffectRuns(sw2, sr2) ==
    /\ sw2 # selectedWorkspace \/ sr2 # selectedReport
    /\ sr2 # "" /\ sw2 # ""

\* A user command is possible while the requests it issues fit in
\* MaxFetches; the resolution of a request is never held back.
HasBudget(sw2, sr2) ==
    issued + (IF ReportsEffectRuns(sw2) THEN 1 ELSE 0)
           + (IF ConfigEffectRuns(sw2, sr2) THEN 1 ELSE 0) <= MaxFetches

\* A commit that sets the selections to (sw2, sr2), followed by the effects
\* whose dependencies changed, in declaration order.  outstanding is the set
\* of report requests left after the commit's own resolution, if any.
Commit(sw2, sr2, outstanding) ==
    LET rep == ReportsEffectRuns(sw2)
        cfg == ConfigEffectRuns(sw2, sr2)
        nr  == IF rep THEN 1 ELSE 0
        nc  == IF cfg THEN 1 ELSE 0
    IN  /\ selectedWorkspace' = sw2
        /\ selectedReport' = sr2
        /\ reportFetches' = IF rep
                            THEN outstanding \cup {[id |-> issued + 1, workspaceId |-> sw2]}
                            ELSE outstanding
        /\ configFetches' = IF cfg
                            THEN configFetches \cup {EmbedRequest(issued + nr + 1, sr2, sw2)}
                            ELSE configFetches
        /\ loading' = IF cfg THEN TRUE ELSE loading
        /\ issued' = issued + nr + nc

\* ---------------------------------------------------------------- Init
Init ==
    /\ embedConfig = {}
    /\ loading = TRUE
    /\ error = Null
    /\ workspaces = <<>>
    /\ reports = <<>>
    /\ selectedWorkspace = ""
    /\ selectedReport = ""
    /\ settingsOpen = FALSE
    /\ embedSettings = [theme |-> "light", filterPaneEnabled |-> TRUE,
                        navContentPaneEnabled |-> TRUE, showReportNavigation |-> TRUE]
    /\ wsFetch = "pending"
    /\ reportFetches = {}
    /\ configFetches = {}
    /\ issued = 0
    /\ now = 0

\* ------------------------------------------------------- fetchWorkspaces
\* Variant: auto-selects the last workspace of the list (an index slip).
fetchWorkspacesOk_Last(data) ==
    /\ wsFetch = "pending"
    /\ wsFetch' = "ok"
    /\ workspaces' = data
    /\ Commit(IF Len(data) > 0 THEN data[Len(data)] ELSE selectedWorkspace,
              selectedReport, reportFetches)
    /\ UNCHANGED <<now, embedConfig, error, reports, settingsOpen, embedSettings>>

fetchWorkspacesOk(data) ==
    /\ wsFetch = "pending"
    /\ wsFetch' = "ok"
    /\ workspaces' = data
    /\ Commit(IF Len(data) > 0 THEN data[1] ELSE selectedWorkspace, selectedReport,
              reportFetches)
    /\ UNCHANGED <<now, embedConfig, error, reports, settingsOpen, embedSettings>>

fetchWorkspacesFail ==
    /\ wsFetch = "pending"
    /\ wsFetch' = "failed"
    /\ error' = WorkspacesError
    /\ UNCHANGED <<now, embedConfig, loading, workspaces, reports, selectedWorkspace,
                   selectedReport, settingsOpen, embedSettings, reportFetches,
                   configFetches, issued>>

\* ---------------------------------------------------------- fetchReports
fetchReportsOk(f) ==
    LET data == Catalog[f.workspaceId]
    IN  /\ f \in reportFetches
        /\ reports' = data
        /\ Commit(selectedWorkspace,
                  IF Len(data) > 0 THEN data[1] ELSE selectedReport,
                  reportFetches \ {f})
        /\ UNCHANGED <<now, embedConfig, error, workspaces, settingsOpen, embedSettings,
                       wsFetch>>

fetchReportsFail(f) ==
    /\ f \in reportFetches
    /\ reportFetches' = reportFetches \ {f}
    /\ error' = ReportsError
    /\ UNCHANGED <<now, embedConfig, loading, workspaces, reports, selectedWorkspace,
                   selectedReport, settingsOpen, embedSettings, wsFetch,
                   configFetches, issued>>

\* --------------------------------------------------- generateEmbedConfig
\* The call itself, from an event handler of the current render.
generateEmbedConfig ==
    /\ loading' = TRUE
    /\ configFetches' = configFetches \cup
                          {EmbedRequest(issued + 1, selectedReport, selectedWorkspace)}
    /\ issued' = issued + 1

\* The POST resolved and response.data has no error field.
generateEmbedConfigOk(f) ==
    /\ f \in configFetches
    /\ configFetches' = configFetches \ {f}
    /\ embedConfig' = {EmbedResponse(f)}
    /\ error' = Null
    /\ loading' = FALSE
    /\ UNCHANGED <<now, workspaces, reports, selectedWorkspace, selectedReport,
                   settingsOpen, embedSettings, wsFetch, reportFetches, issued>>

\* Variant: the response is installed without looking at its error field
\* first (the check comes after setEmbedConfig).
generateEmbedConfigError_Installs(f) ==
    /\ f \in configFetches
    /\ configFetches' = configFetches \ {f}
    /\ embedConfig' = {EmbedResponse(f)}
    /\ error' = ResponseError
    /\ loading' = FALSE
    /\ UNCHANGED <<now, workspaces, reports, selectedWorkspace, selectedReport,
                   settingsOpen, embedSettings, wsFetch, reportFetches, issued>>

\* The POST resolved and response.data.error is set.
generateEmbedConfigError(f) ==
    /\ f \in configFetches
    /\ configFetches' = configFetches \ {f}
    /\ error' = ResponseError
    /\ loading' = FALSE
    /\ UNCHANGED <<now, embedConfig, workspaces, reports, selectedWorkspace,
                   selectedReport, settingsOpen, embedSettings, wsFetch,
                   reportFetches, issued>>

\* The POST was rejected (catch branch).
generateEmbedConfigFail(f) ==
    /\ f \in configFetches
    /\ configFetches' = configFetches \ {f}
    /\ error' = EmbedConfigError
    /\ loading' = FALSE
    /\ UNCHANGED <<now, embedConfig, workspaces, reports, selectedWorkspace,
                   selectedReport, settingsOpen, embedSettings, wsFetch,
                   reportFetches, issued>>

\* ---------------------------------------------------------- user commands
\* While loading the component returns the progress bar only: no control is
\* rendered.  The settings dialog is modal: while it is open the controls
\* behind it take no input.
ControlsUsable == ~loading /\ ~settingsOpen
DialogUsable == ~loading /\ settingsOpen

\* Variant: the handler calls fetchReports itself instead of leaving it to
\* the effect, so it refetches also when the value did not change.
selectWorkspace_Refetch(w) ==
    /\ ControlsUsable
    /\ w \in Range(workspaces)
    /\ issued + 1 <= MaxFetches
    /\ selectedWorkspace' = w
    /\ reportFetches' = reportFetches \cup {[id |-> issued + 1, workspaceId |-> w]}
    /\ issued' = issued + 1
    /\ UNCHANGED <<now, embedConfig, loading, error, workspaces, reports,
                   selectedReport, settingsOpen, embedSettings, wsFetch,
                   configFetches>>

\* Workspace <Select> onChange: setSelectedWorkspace(e.target.value), the
\* value being one of the rendered menu items.
selectWorkspace(w) ==
    /\ ControlsUsable
    /\ w \in Range(workspaces)
    /\ HasBudget(w, selectedReport)
    /\ Commit(w, selectedReport, reportFetches)
    /\ UNCHANGED <<now, embedConfig, error, workspaces, reports, settingsOpen,
                   embedSettings, wsFetch>>

\* Report <Select> onChange: setSelectedReport(e.target.value); the select
\* is disabled while no workspace is selected.
selectReport(r) ==
    /\ ControlsUsable
    /\ selectedWorkspace # ""
    /\ r \in Range(reports)
    /\ HasBudget(selectedWorkspace, r)
    /\ Commit(selectedWorkspace, r, reportFetches)
    /\ UNCHANGED <<now, embedConfig, error, workspaces, reports, settingsOpen,
                   embedSettings, wsFetch>>

\* Variant: refresh reloads the report list of the selected workspace
\* (fetchReports) instead of regenerating the configuration.
handleRefresh_Reload ==
    /\ ControlsUsable
    /\ IF selectedReport # "" /\ selectedWorkspace # ""
       THEN /\ issued + 1 <= MaxFetches
            /\ reportFetches' = reportFetches \cup
                                  {[id |-> issued + 1, workspaceId |-> selectedWorkspace]}
            /\ issued' = issued + 1
       ELSE UNCHANGED <<reportFetches, issued>>
    /\ UNCHANGED <<now, embedConfig, loading, error, workspaces, reports,
                   selectedWorkspace, selectedReport, settingsOpen, embedSettings,
                   wsFetch, configFetches>>

handleRefresh ==
    /\ ControlsUsable
    /\ IF selectedReport # "" /\ selectedWorkspace # ""
       THEN /\ issued + 1 <= MaxFetches
            /\ generateEmbedConfig
       ELSE UNCHANGED <<loading, configFetches, issued>>
    /\ UNCHANGED <<now, embedConfig, error, workspaces, reports, selectedWorkspace,
                   selectedReport, settingsOpen, embedSettings, wsFetch,
                   reportFetches>>

\* onClick={() => setSettingsOpen(true)}
openSettings ==
    /\ ControlsUsable
    /\ settingsOpen' = TRUE
    /\ UNCHANGED <<now, embedConfig, loading, error, workspaces, reports,
                   selectedWorkspace, selectedReport, embedSettings, wsFetch,
                   reportFetches, configFetches, issued>>

\* Dialog onClose and the Cancel button: setSettingsOpen(false).
closeSettings ==
    /\ DialogUsable
    /\ settingsOpen' = FALSE
    /\ UNCHANGED <<now, embedConfig, loading, error, workspaces, reports,
                   selectedWorkspace, selectedReport, embedSettings, wsFetch,
                   reportFetches, configFetches, issued>>

\* The three <Select> onChange handlers of the dialog.
setTheme(t) ==
    /\ DialogUsable
    /\ embedSettings' = [embedSettings EXCEPT !.theme = t]
    /\ UNCHANGED <<now, embedConfig, loading, error, workspaces, reports,
                   selectedWorkspace, selectedReport, settingsOpen, wsFetch,
                   reportFetches, configFetches, issued>>

setFilterPane(b) ==
    /\ DialogUsable
    /\ embedSettings' = [embedSettings EXCEPT !.filterPaneEnabled = b]
    /\ UNCHANGED <<now, embedConfig, loading, error, workspaces, reports,
                   selectedWorkspace, selectedReport, settingsOpen, wsFetch,
                   reportFetches, configFetches, issued>>

setNavigation(b) ==
    /\ DialogUsable
    /\ embedSettings' = [embedSettings EXCEPT !.showReportNavigation = b]
    /\ UNCHANGED <<now, embedConfig, loading, error, workspaces, reports,
                   selectedWorkspace, selectedReport, settingsOpen, wsFetch,
                   reportFetches, configFetches, issued>>

handleSettingsSave ==
    /\ DialogUsable
    /\ settingsOpen' = FALSE
    /\ IF embedConfig # {}
       THEN /\ issued + 1 <= MaxFetches
            /\ generateEmbedConfig
       ELSE UNCHANGED <<loading, configFetches, issued>>
    /\ UNCHANGED <<now, embedConfig, error, workspaces, reports, selectedWorkspace,
                   selectedReport, embedSettings, wsFetch, reportFetches>>

\* ------------------------------------------------------------- rendering
\* if (loading) return <LinearProgress/>
LoadingView == loading
\* {error && <Alert>}
ErrorShown == ~loading /\ error # Null
\* {embedConfig && !error ? <iframe> : "No Dashboard Selected"}
FrameShown == ~loading /\ embedConfig # {} /\ error = Null
\* {embedConfig && (Dashboard Information ...)}
InfoPanelShown == ~loading /\ embedConfig # {}

\* What the component presents: the loading view hides everything else, and
\* otherwise a recorded error is presented as the failure.
Status == IF loading THEN "Loading" ELSE IF error # Null THEN "Failed" ELSE "Ready"

\* ------------------------------------------------------------------ Next
Next ==
    \/ \E data \in WorkspaceLists : fetchWorkspacesOk(data)
    \/ fetchWorkspacesFail
    \/ \E f \in reportFetches : fetchReportsOk(f)
    \/ \E f \in reportFetches : fetchReportsFail(f)
    \/ \E f \in configFetches : generateEmbedConfigOk(f)
    \/ \E f \in configFetches : generateEmbedConfigError(f)
    \/ \E f \in configFetches : generateEmbedConfigFail(f)
    \/ \E w \in {"w1", "w2", "w3"} : selectWorkspace(w)
    \/ \E r \in {"r1", "r2", "r3"} : selectReport(r)
    \/ handleRefresh
    \/ openSettings
    \/ handleSettingsSave
    \/ closeSettings
    \/ \E t \in Themes : setTheme(t)
    \/ \E b \in BOOLEAN : setFilterPane(b)
    \/ \E b \in BOOLEAN : setNavigation(b)

Spec == Init /\ [][Next]_vars

\* ------------------------------------------------------ the passing of time
\* The component starts no timer and subscribes to no clock: time passes
\* without a render.
Tick ==
    /\ now < MaxTime
    /\ now' = now + 1
    /\ UNCHANGED <<embedConfig, loading, error, workspaces, reports,
                   selectedWorkspace, selectedReport, settingsOpen, embedSettings,
                   wsFetch, reportFetches, configFetches, issued>>

NextClock == Next \/ Tick

SpecClock == Init /\ [][NextClock]_vars

\* "Token Expires: {new Date(embedConfig.expiration).toLocaleString()}"
TokenExpires == { c.expiration : c \in embedConfig }

\* Everything the component renders that depends on the configuration.
Rendered == <<LoadingView, ErrorShown, FrameShown, InfoPanelShown, TokenExpires>>

\* The status an expiration monitor reports for configuration c.
ExpirationStatus(c) ==
    IF now >= c.expiration THEN "expired"
    ELSE IF now + LeadWindow >= c.expiration THEN "nearingExpiry"
    ELSE "valid"

\* ------------------------------------------- a caller other than the menu
\* The Report <Select> onChange handler applied to a value v that need not
\* be one of the rendered menu items: setSelectedReport(v).
setSelectedReport(v) ==
    /\ ControlsUsable
    /\ selectedWorkspace # ""
    /\ HasBudget(selectedWorkspace, v)
    /\ Commit(selectedWorkspace, v, reportFetches)
    /\ UNCHANGED <<now, embedConfig, error, workspaces, reports, settingsOpen,
                   embedSettings, wsFetch>>

\* Report ids that no workspace of the catalog has.
UnknownReports == {"r9"}

NextRaw == Next \/ \E v \in UnknownReports : setSelectedReport(v)

SpecRaw == Init /\ [][NextRaw]_vars

TypeOK ==
    /\ Cardinality(embedConfig) <= 1
    /\ loading \in BOOLEAN
    /\ settingsOpen \in BOOLEAN
    /\ issued <= MaxFetches + Cardinality(reportFetches) + 2

\* ------------------------------------------------------------ properties

\* C1: whenever embedConfig is set, it is the response to a request for
\* exactly the selected workspace and the selected report.
C1_ConfigMatchesSelection ==
    \A c \in embedConfig :
        c.workspace_id = selectedWorkspace /\ c.report_id = selectedReport

\* C2: the selected report is empty or one of the reports of the selected
\* workspace, also between a workspace change and the resolution of its
\* report request.
C2_ReportBelongsToWorkspace ==
    \/ selectedReport = ""
    \/ /\ selectedWorkspace # ""
       /\ selectedReport \in Range(Catalog[selectedWorkspace])

\* C3: the response to a report request for a workspace that is no longer
\* the selected one is discarded: it changes neither the report list nor
\* the selected report.
C3_StaleReportListDiscarded ==
    [][\A f \in reportFetches :
          (fetchReportsOk(f) /\ f.workspaceId # selectedWorkspace)
              => (reports' = reports /\ selectedReport' = selectedReport)]_vars

\* C4: the response to an embed-config request never replaces the response
\* to a request that was issued later.
C4_LatestIssuedConfigWins ==
    [][\A c \in embedConfig : \A d \in embedConfig' : d.id >= c.id]_vars

\* C5: every embed-config request pairs a workspace with one of its own
\* reports.
C5_NoCrossTierRequest ==
    \A f \in configFetches : f.report_id \in Range(Catalog[f.workspace_id])

\* C6: every embed-config request carries the current embedSettings, and
\* whenever embedConfig is set it is bound to the current embedSettings.
C6_ConfigBoundToSettings ==
    /\ \A f \in configFetches :
          "settings" \in DOMAIN f /\ f.settings = embedSettings
    /\ \A c \in embedConfig :
          "settings" \in DOMAIN c /\ c.settings = embedSettings

\* C7: saving the settings while a report is selected issues exactly one
\* embed-config request, for the selected workspace and report, and clears
\* the old configuration.
C7_SaveRegeneratesConfig ==
    [][(handleSettingsSave /\ selectedReport # "")
          => /\ \E f \in configFetches' \ configFetches :
                   /\ configFetches' = configFetches \cup {f}
                   /\ f.report_id = selectedReport
                   /\ f.workspace_id = selectedWorkspace
             /\ embedConfig' = {}]_vars

\* C8: when the report request for the selected workspace resolves with an
\* empty list, the component is not loading, no report is selected and no
\* configuration is installed.
C8_EmptyReportListIsReady ==
    [][\A f \in reportFetches :
          (fetchReportsOk(f) /\ f.workspaceId = selectedWorkspace
                             /\ Catalog[f.workspaceId] = <<>>)
              => (~loading' /\ selectedReport' = "" /\ embedConfig' = {})]_vars

\* C9: when the embed-config request for the selected report fails while
\* the configuration of a different report is installed, no configuration
\* is installed afterwards and none is displayed.
C9_FailedConfigClears ==
    [][\A f \in configFetches :
          ((generateEmbedConfigFail(f) \/ generateEmbedConfigError(f))
              /\ f.report_id = selectedReport
              /\ \E c \in embedConfig : c.report_id # f.report_id)
              => (embedConfig' = {} /\ ~InfoPanelShown')]_vars

\* C10: once the workspace request has failed, the component is not loading,
\* the error is recorded and shown, nothing is selected and no report or
\* embed-config request has been issued.
C10_WorkspaceFailureIsFailed ==
    wsFetch = "failed"
        => /\ ~loading
           /\ error = WorkspacesError
           /\ ErrorShown
           /\ selectedWorkspace = "" /\ selectedReport = ""
           /\ issued = 0 /\ reportFetches = {} /\ configFetches = {}

\* C11: when the report request for the selected workspace fails, the
\* session is Failed with the report error recorded, and the selected
\* workspace and the workspace list are unchanged.
C11_ReportFailureKeepsWorkspace ==
    [][\A f \in reportFetches :
          (fetchReportsFail(f) /\ f.workspaceId = selectedWorkspace)
              => /\ Status' = "Failed"
                 /\ error' = ReportsError
                 /\ selectedWorkspace' = selectedWorkspace
                 /\ workspaces' = workspaces]_vars

\* C12: when the report request for the selected workspace fails, the
\* workspace tier is unchanged and the report list, the selected report and
\* the configuration are cleared.
C12_FailureClearsLowerTiers ==
    [][\A f \in reportFetches :
          (fetchReportsFail(f) /\ f.workspaceId = selectedWorkspace)
              => /\ selectedWorkspace' = selectedWorkspace
                 /\ workspaces' = workspaces
                 /\ reports' = <<>>
                 /\ selectedReport' = ""
                 /\ embedConfig' = {}]_vars

\* A step that reissues the report request for the selected workspace and
\* changes no selection.
RetryReports ==
    /\ Next
    /\ selectedWorkspace' = selectedWorkspace
    /\ selectedReport' = selectedReport
    /\ \E f \in reportFetches' \ reportFetches : f.workspaceId = selectedWorkspace

\* C13: after the report request for the selected workspace has failed and
\* nothing is outstanding, a command is available that reissues that request
\* without changing the selection.
C13_RetryAvailable ==
    (/\ error = ReportsError
     /\ selectedWorkspace # ""
     /\ reportFetches = {} /\ configFetches = {}
     /\ issued < MaxFetches)
        => ENABLED RetryReports

\* C15: whenever the component is not loading, no request is outstanding.
C15_LoadingReflectsFetches ==
    ~loading => /\ wsFetch # "pending"
                /\ reportFetches = {}
                /\ configFetches = {}

C16_FrameNeverExpired ==
    FrameShown => \A c \in embedConfig : now < c.expiration

\* C17: the passing of time changes no state and issues no request, and
\* what the component renders tells valid, nearing expiry and expired apart:
\* when the expiration status of the installed configuration changes, so
\* does the rendering.
C17_ExpirationSignal ==
    [][/\ Tick => UNCHANGED <<embedConfig, loading, error, workspaces, reports,
                              selectedWorkspace, selectedReport, settingsOpen,
                              embedSettings, wsFetch, reportFetches,
                              configFetches, issued>>
       /\ \A c \in embedConfig :
             (embedConfig' = embedConfig /\ ExpirationStatus(c)' # ExpirationStatus(c))
                 => Rendered' # Rendered]_vars

\* C18: when the workspace request succeeds with a non-empty list, the
\* workspace list is that list in the order returned, the selected workspace
\* is its first element, and exactly one report request is issued, for that
\* workspace, and no embed-config request.
C18_AutoSelectFirstWorkspace ==
    [][\A data \in WorkspaceLists :
          (fetchWorkspacesOk(data) /\ Len(data) > 0)
              => /\ workspaces' = data
                 /\ selectedWorkspace' = data[1]
                 /\ Cardinality(reportFetches') = 1
                 /\ \A f \in reportFetches' : f.workspaceId = data[1]
                 /\ configFetches' = {}
                 /\ issued' = 1]_vars

\* The list arrived in an order that is not sorted, its first element is
\* selected and its report request is outstanding.
C18_Witness ==
    /\ wsFetch = "ok"
    /\ workspaces = <<"w3", "w2", "w1">>
    /\ selectedWorkspace = "w3"
    /\ reportFetches = {[id |-> 1, workspaceId |-> "w3"]}
    /\ issued = 1

\* C19: selecting the report that is already selected changes no state and
\* issues no request; selecting another report issues exactly one
\* embed-config request, for that report and the selected workspace.
C19_SelectReportIdempotent ==
    [][\A r \in {"r1", "r2", "r3"} :
          selectReport(r)
              => IF r = selectedReport
                 THEN UNCHANGED vars
                 ELSE /\ \E f \in configFetches' \ configFetches :
                            /\ configFetches' = configFetches \cup {f}
                            /\ f.report_id = r
                            /\ f.workspace_id = selectedWorkspace
                      /\ reportFetches' = reportFetches]_vars

\* The user has selected r2 (never auto-selected), its request has resolved
\* and the report select can be used again to select r2 a second time.
C19_Witness ==
    /\ selectedReport = "r2"
    /\ "r2" \in Range(reports)
    /\ ControlsUsable
    /\ selectedWorkspace # ""
    /\ HasBudget(selectedWorkspace, "r2")

\* C20: selecting the workspace that is already selected changes no state
\* and issues neither a report request nor an embed-config request.
C20_SelectWorkspaceNoOp ==
    [][\A w \in {"w1", "w2", "w3"} :
          (selectWorkspace(w) /\ w = selectedWorkspace) => UNCHANGED vars]_vars

\* The user has selected w2 (never auto-selected), a configuration is
\* installed, and the workspace select can be used to select w2 again.
C20_Witness ==
    /\ selectedWorkspace = "w2"
    /\ "w2" \in Range(workspaces)
    /\ ControlsUsable
    /\ embedConfig # {}
    /\ HasBudget("w2", selectedReport)

\* C21: refresh issues exactly one embed-config request, for the selected
\* workspace and report, and changes neither selection nor the report list
\* nor the report requests; with no report selected it changes nothing.
C21_RefreshKeepsSelections ==
    [][handleRefresh
          => IF selectedReport # "" /\ selectedWorkspace # ""
             THEN /\ \E f \in configFetches' \ configFetches :
                        /\ configFetches' = configFetches \cup {f}
                        /\ f.report_id = selectedReport
                        /\ f.workspace_id = selectedWorkspace
                  /\ selectedWorkspace' = selectedWorkspace
                  /\ selectedReport' = selectedReport
                  /\ reports' = reports
                  /\ workspaces' = workspaces
                  /\ reportFetches' = reportFetches
             ELSE UNCHANGED vars]_vars

\* A configuration is installed for the selection and a later request for
\* the same pair is outstanding, the selection and the report list being
\* those of the installed configuration.
C21_Witness ==
    /\ loading /\ ~settingsOpen
    /\ reportFetches = {}
    /\ selectedReport \in Range(reports)
    /\ \E c \in embedConfig :
          /\ c.report_id = selectedReport /\ c.workspace_id = selectedWorkspace
          /\ \E f \in configFetches :
                /\ f.id > c.id
                /\ f.report_id = selectedReport
                /\ f.workspace_id = selectedWorkspace

\* No request is outstanding: every request that was issued has resolved.
Quiescent == wsFetch # "pending" /\ reportFetches = {} /\ configFetches = {}

\* C22: once every issued request has resolved, the component has left the
\* loading view.
C22_LoadingEnds == Quiescent => ~loading

\* C23: a recorded report error stays until a report request for the
\* selected workspace succeeds or the selected workspace changes; the
\* success of an embed-config request does not clear it.
C23_ErrorClearedByOwnTier ==
    [][(error = ReportsError /\ error' # ReportsError)
          => \/ \E f \in reportFetches :
                   fetchReportsOk(f) /\ f.workspaceId = selectedWorkspace
             \/ selectedWorkspace' # selectedWorkspace]_vars

\* C24: when an embed-config request is rejected or answered with an error
\* field, the error is recorded, the response is not installed, and loading
\* is false; the error goes back to empty only in a step that installs the
\* response to an embed-config request.
C24_ConfigFailureOutcome ==
    [][/\ \A f \in configFetches :
             /\ generateEmbedConfigFail(f) =>
                   /\ error' = EmbedConfigError
                   /\ embedConfig' = embedConfig
                   /\ EmbedResponse(f) \notin embedConfig'
                   /\ ~loading'
             /\ generateEmbedConfigError(f) =>
                   /\ error' = ResponseError
                   /\ embedConfig' = embedConfig
                   /\ EmbedResponse(f) \notin embedConfig'
                   /\ ~loading'
       /\ (error # Null /\ error' = Null)
             => \E f \in configFetches :
                   /\ configFetches' = configFetches \ {f}
                   /\ embedConfig' = {EmbedResponse(f)}]_vars

\* The request for the newly selected report has failed: the error is
\* recorded, loading is false and the installed configuration is still the
\* one of the report selected before.
C24_Witness ==
    /\ ~loading
    /\ error \in {EmbedConfigError, ResponseError}
    /\ configFetches = {}
    /\ \E c \in embedConfig : c.report_id # selectedReport

====
